---- MODULE Spec2Model ----
(***************************************************************************)
(* Model of src/trait_bounds.rs: the traits Summary, Summary2, Summary3,   *)
(* their implementations on NewsArticle and Tweet, the free functions      *)
(* notify / notify2 / returns_summarizable, Pair<T> with its constructor   *)
(* and its conditionally implemented cmp_display, and the statements of    *)
(* main that run them.                                                     *)
(*                                                                         *)
(* A String is a TLA+ string; format! is concatenation (\o) of the         *)
(* template's literal pieces and its arguments, in the template's order.   *)
(* A value of a struct is a record carrying its type name in field "type", *)
(* so that a trait method call dispatches on the implementing type.        *)
(*                                                                         *)
(* Two entries are modelled.  pc = "L44" .. "done" is the run of main,     *)
(* statement by statement.  pc = "lib" is a caller of the pub items (the   *)
(* file is headed "lib.rs"): it builds one value from bounded inputs and   *)
(* calls the operations the value's type offers.                           *)
(***************************************************************************)
EXTENDS Integers, Sequences, FiniteSets, TLC

VARIABLES pc, tweet, article, s, item, stdout, trace

vars == <<pc, tweet, article, s, item, stdout, trace>>

(* ------------------------------ bounds --------------------------------- *)

\* Largest number of calls a caller makes on its value.
MaxCalls == 3

\* Largest whole number held by a Pair member.
MaxVal == 2

\* The texts a caller puts in String fields (the empty String included).
Strs == {"", "ab", "c"}

(* ------------------------------ values --------------------------------- *)

\* A binding that holds no value yet.
NoItem == [type |-> "none"]

\* A binding whose value was moved into a by-value parameter.
Moved == [type |-> "moved"]

\* The unit value () returned by functions that only print.
Unit == "()"

MkNewsArticle(h, l, a, c) ==
    [type |-> "NewsArticle", headline |-> h, location |-> l, author |-> a, content |-> c]

MkTweet(u, c, r, rt) ==
    [type |-> "Tweet", username |-> u, content |-> c, reply |-> r, retweet |-> rt]

\* The element type T of the modelled Pair<T> is f64, which is Display +
\* PartialOrd and not totally ordered: a whole number or NaN.
Num(n) == [nan |-> FALSE, v |-> n]

NaN == [nan |-> TRUE, v |-> 0]

Vals == {Num(n) : n \in 0..MaxVal} \cup {NaN}

(* ----------------------- Display and PartialOrd ------------------------ *)

Digit(d) == SubSeq("0123456789", d + 1, d + 1)

RECURSIVE fmt_nat(_)
fmt_nat(n) == IF n < 10 THEN Digit(n) ELSE fmt_nat(n \div 10) \o Digit(n % 10)

\* Display for a Pair member: "NaN", or the whole number's decimal digits.
fmt(v) == IF v.nan THEN "NaN" ELSE fmt_nat(v.v)

\* The blanket impl <T: Display> ToString for T, used at an integer.
to_string(n) == fmt_nat(n)

\* PartialOrd::ge on a Pair member: false as soon as either side is NaN.
ge(a, b) == ~a.nan /\ ~b.nan /\ a.v >= b.v

(* ------------------------------ traits --------------------------------- *)

\* A variant that puts the location before the author.
NewsArticle_summarize_swapped(self) ==
    self.headline \o ", by " \o self.location \o " (" \o self.author \o ")"

NewsArticle_summarize(self) ==
    self.headline \o ", by " \o self.author \o " (" \o self.location \o ")"

\* A variant that marks a retweet in the text.
Tweet_summarize_flagged(self) ==
    (IF self.retweet THEN "RT " ELSE "") \o self.username \o ": " \o self.content

Tweet_summarize(self) == self.username \o ": " \o self.content

\* Summary::summarize has no default body: each impl supplies its own.
summarize(self) ==
    IF self.type = "NewsArticle" THEN NewsArticle_summarize(self)
    ELSE Tweet_summarize(self)

ImplsSummary(v) == v.type \in {"NewsArticle", "Tweet"}

\* The default body of Summary2::summarize2.
Summary2_summarize2(self) == "(Read more...)"

\* impl Summary2 for NewsArticle {} overrides nothing.
summarize2(self) == Summary2_summarize2(self)

ImplsSummary2(v) == v.type = "NewsArticle"

\* A variant that leaves out the "@".
Tweet_summarize_author_bare(self) == self.username

Tweet_summarize_author(self) == "@" \o self.username

\* Summary3::summarize_author has no default body; Tweet is its only impl.
summarize_author(self) == Tweet_summarize_author(self)

\* A variant of the default body that reads the username itself instead of
\* calling summarize_author.
Summary3_summarize3_direct(self) == "(Read more from " \o self.username \o "...)"

\* The default body of Summary3::summarize3.
Summary3_summarize3(self) == "(Read more from " \o summarize_author(self) \o "...)"

\* impl Summary3 for Tweet does not override summarize3.
summarize3(self) == Summary3_summarize3(self)

ImplsSummary3(v) == v.type = "Tweet"

(* -------------------------- free functions ----------------------------- *)

\* The lines notify(item) prints.
notify(it) == <<"Breaking news! " \o summarize(it)>>

\* The lines notify2(item) prints.
notify2(it) == <<"Breaking news: " \o summarize(it)>>

returns_summarizable ==
    MkTweet("jcabdu", "The returning type is any that implements the trait Summary",
            TRUE, FALSE)

(* ------------------------------ Pair<T> -------------------------------- *)

Pair_new(x, y) == [type |-> "Pair", x |-> x, y |-> y]

\* A variant that compares with > instead of >=.
cmp_display_strict(self) ==
    IF ge(self.x, self.y) /\ self.x # self.y
    THEN <<"The largest member is x= " \o fmt(self.x)>>
    ELSE <<"The largest member is y= " \o fmt(self.y)>>

\* A variant that tests y >= x first and falls back to x.
cmp_display_reversed(self) ==
    IF ge(self.y, self.x) /\ self.x # self.y
    THEN <<"The largest member is y= " \o fmt(self.y)>>
    ELSE <<"The largest member is x= " \o fmt(self.x)>>

\* The lines cmp_display(&self) prints.
cmp_display(self) ==
    IF ge(self.x, self.y)
    THEN <<"The largest member is x= " \o fmt(self.x)>>
    ELSE <<"The largest member is y= " \o fmt(self.y)>>

(* ------------------------------- Init ---------------------------------- *)

Init ==
    /\ pc \in {"L44", "lib"}
    /\ tweet = NoItem
    /\ article = NoItem
    /\ s = ""
    /\ item = NoItem
    /\ stdout = <<>>
    /\ trace = <<>>

(* ------------------------------- main ---------------------------------- *)

Main44 ==
    /\ pc = "L44"
    /\ tweet' = MkTweet("jcabdu", "Traits in Rust are fun!", FALSE, FALSE)
    /\ pc' = "L45"
    /\ UNCHANGED <<article, s, item, stdout, trace>>

\* A variant of line 45 that hands the tweet to notify.
Main45_notify ==
    /\ pc = "L45"
    /\ stdout' = stdout \o notify(tweet)
    /\ tweet' = Moved
    /\ pc' = "L56"
    /\ UNCHANGED <<article, s, item, trace>>

Main45 ==
    /\ pc = "L45"
    /\ stdout' = Append(stdout, "1 new tweet: " \o summarize(tweet))
    /\ pc' = "L56"
    /\ UNCHANGED <<tweet, article, s, item, trace>>

Main56 ==
    /\ pc = "L56"
    /\ article' = MkNewsArticle("Red Coalition Wins Danish General Elections",
                                "Copenhagen, Denmark", "Julio Cabdu",
                                "Social Democrats back in government, ... ")
    /\ pc' = "L62"
    /\ UNCHANGED <<tweet, s, item, stdout, trace>>

Main62 ==
    /\ pc = "L62"
    /\ stdout' = Append(stdout, "New article available! " \o summarize2(article))
    /\ pc' = "L81"
    /\ UNCHANGED <<tweet, article, s, item, trace>>

Main81 ==
    /\ pc = "L81"
    /\ tweet' = MkTweet("jcabdu",
                        "Implementing the Summary3 trait for the type Tweet, has given us the behavior of the summarize3 method by default",
                        FALSE, FALSE)
    /\ pc' = "L87"
    /\ UNCHANGED <<article, s, item, stdout, trace>>

\* A variant of line 87 that calls summarize instead of summarize3.
Main87_summarize ==
    /\ pc = "L87"
    /\ stdout' = Append(stdout, "1 new tweet: " \o summarize(tweet))
    /\ pc' = "L171"
    /\ UNCHANGED <<tweet, article, s, item, trace>>

Main87 ==
    /\ pc = "L87"
    /\ stdout' = Append(stdout, "1 new tweet: " \o summarize3(tweet))
    /\ pc' = "L171"
    /\ UNCHANGED <<tweet, article, s, item, trace>>

Main171 ==
    /\ pc = "L171"
    /\ s' = to_string(9)
    /\ pc' = "done"
    /\ UNCHANGED <<tweet, article, item, stdout, trace>>

MainNext == Main44 \/ Main45 \/ Main56 \/ Main62 \/ Main81 \/ Main87 \/ Main171

(* ------------------------ a caller of the pub items -------------------- *)

CanBuild == pc = "lib" /\ item = NoItem /\ trace = <<>>

CanCall == pc = "lib" /\ Len(trace) < MaxCalls

Called(fn, self, ret) == Append(trace, [fn |-> fn, self |-> self, ret |-> ret])

NewNewsArticle ==
    /\ CanBuild
    /\ \E h \in Strs, l \in Strs, a \in Strs, c \in Strs : item' = MkNewsArticle(h, l, a, c)
    /\ UNCHANGED <<pc, tweet, article, s, stdout, trace>>

NewTweet ==
    /\ CanBuild
    /\ \E u \in Strs, c \in Strs, r \in BOOLEAN, rt \in BOOLEAN : item' = MkTweet(u, c, r, rt)
    /\ UNCHANGED <<pc, tweet, article, s, stdout, trace>>

NewPair ==
    /\ CanBuild
    /\ \E x \in Vals, y \in Vals : item' = Pair_new(x, y)
    /\ UNCHANGED <<pc, tweet, article, s, stdout, trace>>

CallReturnsSummarizable ==
    /\ CanBuild
    /\ item' = returns_summarizable
    /\ UNCHANGED <<pc, tweet, article, s, stdout, trace>>

\* item.summarize(): &self, returns the text.
CallSummarize ==
    /\ CanCall
    /\ ImplsSummary(item)
    /\ trace' = Called("summarize", item, summarize(item))
    /\ UNCHANGED <<pc, tweet, article, s, item, stdout>>

CallSummarize2 ==
    /\ CanCall
    /\ ImplsSummary2(item)
    /\ trace' = Called("summarize2", item, summarize2(item))
    /\ UNCHANGED <<pc, tweet, article, s, item, stdout>>

CallSummarizeAuthor ==
    /\ CanCall
    /\ ImplsSummary3(item)
    /\ trace' = Called("summarize_author", item, summarize_author(item))
    /\ UNCHANGED <<pc, tweet, article, s, item, stdout>>

CallSummarize3 ==
    /\ CanCall
    /\ ImplsSummary3(item)
    /\ trace' = Called("summarize3", item, summarize3(item))
    /\ UNCHANGED <<pc, tweet, article, s, item, stdout>>

\* notify(item): the parameter is taken by value, so the caller's binding is moved.
CallNotify ==
    /\ CanCall
    /\ ImplsSummary(item)
    /\ stdout' = stdout \o notify(item)
    /\ trace' = Called("notify", item, Unit)
    /\ item' = Moved
    /\ UNCHANGED <<pc, tweet, article, s>>

CallNotify2 ==
    /\ CanCall
    /\ ImplsSummary(item)
    /\ stdout' = stdout \o notify2(item)
    /\ trace' = Called("notify2", item, Unit)
    /\ item' = Moved
    /\ UNCHANGED <<pc, tweet, article, s>>

\* A variant of cmp_display that takes &mut self and puts the larger member first.
CallCmpDisplay_sorting ==
    /\ pc = "lib" /\ Len(trace) < MaxCalls
    /\ item.type = "Pair"
    /\ stdout' = stdout \o cmp_display(item)
    /\ trace' = Append(trace, [fn |-> "cmp_display", self |-> item, ret |-> Unit])
    /\ item' = IF ge(item.x, item.y) THEN item ELSE Pair_new(item.y, item.x)
    /\ UNCHANGED <<pc, tweet, article, s>>

\* pair.cmp_display(): &self, prints and returns ().
CallCmpDisplay ==
    /\ CanCall
    /\ item.type = "Pair"
    /\ stdout' = stdout \o cmp_display(item)
    /\ trace' = Called("cmp_display", item, Unit)
    /\ UNCHANGED <<pc, tweet, article, s, item>>

LibNext ==
    \/ NewNewsArticle \/ NewTweet \/ NewPair \/ CallReturnsSummarizable
    \/ CallSummarize \/ CallSummarize2 \/ CallSummarizeAuthor \/ CallSummarize3
    \/ CallNotify \/ CallNotify2 \/ CallCmpDisplay

Next == MainNext \/ LibNext

Spec == Init /\ [][Next]_vars

\* main runs to completion once started: it is one thread with no blocking call.
FairSpec == Spec /\ WF_vars(MainNext)

(* ------------------------- helpers of the claims ----------------------- *)

StartsWith(str, p) == Len(str) >= Len(p) /\ SubSeq(str, 1, Len(p)) = p

\* The entries of the caller's trace made by calling fn.
CallsOf(fn) == {i \in 1..Len(trace) : trace[i].fn = fn}

\* This step is the caller's call of fn.
Step(fn) == Len(trace') = Len(trace) + 1 /\ trace'[Len(trace')].fn = fn

\* The methods that borrow the record they are called on (&self).
Methods == {"summarize", "summarize2", "summarize3", "summarize_author", "cmp_display"}

(* -------------------------------- C1 ----------------------------------- *)

\* C1: every summarize call on a NewsArticle returned exactly the headline,
\* ", by ", the author, " (", the location and ")", in that order, built from
\* those three fields alone (the content plays no part).
C1_ArticleSummary ==
    \A i \in CallsOf("summarize") :
        LET a == trace[i].self IN
        a.type = "NewsArticle" =>
            trace[i].ret = a.headline \o ", by " \o a.author \o " (" \o a.location \o ")"

\* summarize was called on an article with an empty headline, a non-empty
\* content and an author that differs from the location.
C1_Witness ==
    \E i \in CallsOf("summarize") :
        /\ trace[i].self.type = "NewsArticle"
        /\ trace[i].self.headline = ""
        /\ trace[i].self.content # ""
        /\ trace[i].self.author = "ab"
        /\ trace[i].self.location = "c"
        /\ trace[i].ret = ", by ab (c)"

(* -------------------------------- C2 ----------------------------------- *)

\* C2: every summarize call on a Tweet returned exactly the username, a colon,
\* one space and the content, whatever the reply and retweet flags were.
C2_TweetSummary ==
    \A i \in CallsOf("summarize") :
        LET t == trace[i].self IN
        t.type = "Tweet" => trace[i].ret = t.username \o ": " \o t.content

\* summarize was called on a Tweet with both flags set.
C2_Witness ==
    \E i \in CallsOf("summarize") :
        /\ trace[i].self.type = "Tweet"
        /\ trace[i].self.reply
        /\ trace[i].self.retweet
        /\ trace[i].self.username = "ab"
        /\ trace[i].ret = "ab: c"

(* -------------------------------- C3 ----------------------------------- *)

C4_CmpDisplay ==
    [][(Step("cmp_display") /\ ~item.x.nan /\ ~item.y.nan) =>
        \E lab \in {"x", "y"} :
            /\ stdout' = Append(stdout, "The largest member is " \o lab \o "= " \o fmt(item[lab]))
            /\ (lab = "x") <=> (item.x.v >= item.y.v)
            /\ item[lab].v >= item.x.v
            /\ item[lab].v >= item.y.v]_vars

\* cmp_display was called on a Pair of equal members and printed x.
C4_Witness ==
    /\ Len(trace) = 1
    /\ trace[1].fn = "cmp_display"
    /\ trace[1].self = Pair_new(Num(1), Num(1))
    /\ stdout = <<"The largest member is x= 1">>

(* -------------------------------- C5 ----------------------------------- *)

\* C5: a default body is what a type that does not override it observes:
\* summarize2 on a NewsArticle is always the literal "(Read more...)", and
\* summarize3 on a Tweet is always the default's template around the text of
\* the Tweet's own summarize_author; summarize_author itself is "@" and the
\* username, the type's text.
C5_DefaultMethodLaw ==
    /\ \A i \in CallsOf("summarize2") : trace[i].ret = "(Read more...)"
    /\ \A i \in CallsOf("summarize_author") : trace[i].ret = "@" \o trace[i].self.username
    /\ \A i \in CallsOf("summarize3") : \A j \in CallsOf("summarize_author") :
           trace[i].ret = "(Read more from " \o trace[j].ret \o "...)"

\* Both summarize_author and summarize3 were called on one Tweet.
C5_Witness ==
    /\ item.type = "Tweet"
    /\ item.username = "c"
    /\ CallsOf("summarize_author") # {}
    /\ CallsOf("summarize3") # {}

(* -------------------------------- C6 ----------------------------------- *)

C7_NotifyEquivalent ==
    [][Step("notify2") => stdout' = stdout \o notify(item)]_vars

(* -------------------------------- C8 ----------------------------------- *)

MainLines ==
    << "1 new tweet: jcabdu: Traits in Rust are fun!",
       "New article available! (Read more...)" >>

\* The number of lines main has printed when it stands at pc.
Printed ==
    CASE pc \in {"L44", "L45"} -> 0
      [] pc \in {"L56", "L62"} -> 1
      [] pc \in {"L81", "L87"} -> 2
      [] OTHER -> 3

C8_Lines ==
    pc # "lib" =>
        /\ Len(stdout) = Printed
        /\ \A i \in 1..Len(stdout) :
              /\ i <= 2 => stdout[i] = MainLines[i]
              /\ i = 3 => StartsWith(stdout[i], "1 new tweet: (Read more from ")
              /\ ~StartsWith(stdout[i], "Breaking news")
              /\ ~StartsWith(stdout[i], "The largest member")
        /\ trace = <<>>
        /\ pc = "done" => ~ENABLED Next

\* C8: a run of main prints its three lines in order (the two fixed lines, then
\* a line beginning "1 new tweet: " made by summarize3), prints no line
\* beginning "Breaking news" or "The largest member", and terminates.
C8_MainRun ==
    /\ []C8_Lines
    /\ (pc = "L44") ~> (pc = "done")

\* main has terminated with three lines printed.
C8_Witness ==
    pc = "done" /\ Len(stdout) = 3 /\ s = "9"

(* -------------------------------- C9 ----------------------------------- *)

\* Every call recorded so far saw the same record, and equal operations gave
\* equal texts and equal printed lines.
SameEveryTime ==
    /\ \A i \in 1..Len(trace) : \A j \in 1..Len(trace) :
          /\ trace[i].self = trace[j].self
          /\ trace[i].fn = trace[j].fn => trace[i].ret = trace[j].ret
    /\ item.type = "Pair" =>
          /\ Len(stdout) = Len(trace)
          /\ \A i \in 1..Len(stdout) : stdout[i] = stdout[1]

\* C9: a call of summarize, summarize2, summarize3, summarize_author or
\* cmp_display leaves every field of the record it is called on as it was, and
\* the same operation called again on the record gives the same text; main's
\* three method calls leave its tweet and article as they were.
C9_NoSideEffect ==
    [][/\ (\E fn \in Methods : Step(fn)) => (item' = item /\ SameEveryTime')
       /\ pc \in {"L45", "L62", "L87"} => (tweet' = tweet /\ article' = article)]_vars

\* cmp_display was called twice on a Pair whose members differ, and the Pair
\* is still the one that was built.
C9_Witness ==
    /\ item = Pair_new(Num(0), Num(2))
    /\ Len(trace) = 2
    /\ trace[1].fn = "cmp_display"
    /\ trace[2].fn = "cmp_display"
    /\ stdout = <<"The largest member is y= 2", "The largest member is y= 2">>

(* -------------------------------- C10 ---------------------------------- *)

\* C10: a cmp_display call on a Pair with a NaN member (its members are then
\* incomparable) appends exactly one line to stdout, naming y with y's value,
\* although y >= x does not hold.
C10_Incomparable ==
    [][(Step("cmp_display") /\ (item.x.nan \/ item.y.nan)) =>
        /\ ~ge(item.x, item.y)
        /\ ~ge(item.y, item.x)
        /\ stdout' = Append(stdout, "The largest member is y= " \o fmt(item.y))]_vars

\* cmp_display was called on a Pair whose x is NaN and printed y.
C10_Witness ==
    /\ Len(trace) = 1
    /\ trace[1].fn = "cmp_display"
    /\ trace[1].self = Pair_new(NaN, Num(1))
    /\ stdout = <<"The largest member is y= 1">>

====
